---- MODULE Spec2Model ----
(***************************************************************************)
(* Model of the NX3 importer/exporter add-on (src/import_nx3.py).          *)
(*                                                                         *)
(* The host scene (bpy.data.objects) is a function from object identities  *)
(* to object records.  Object names and property keys are sequences of     *)
(* '.'-separated segments: "Cube.001" is <<"Cube", "001">>.                *)
(* ExportNX3.execute and ImportNX3.execute are state machines whose        *)
(* position is pc; every external call that can fail (codec, file system)  *)
(* is a step with a failing branch.                                        *)
(***************************************************************************)
EXTENDS Integers, Sequences, FiniteSets, TLC

VARIABLES
  pc,                  \* position inside the running operator
  result,              \* what execute handed back: FINISHED, CANCELLED, EXCEPTION
  objects,             \* bpy.data.objects: identity -> object record
  datablocks,          \* mesh/light data blocks: data id -> set of geometry tokens
  active,              \* context.view_layer.objects.active (0 = none)
  scene0,              \* bpy.data.objects when the operator was invoked
  data0,               \* the data blocks when the operator was invoked
  apply_modifiers,     \* ExportNX3.apply_modifiers
  combine_meshes,      \* ExportNX3.combine_meshes
  base_filename,       \* base name of export_path, extension stripped
  original_selection,  \* context.selected_objects at export start (identities)
  dupIndex,            \* position of the duplication loop in original_selection
  duplicated_object_names, \* the tracked duplicate list
  encoded,             \* identities handed to the scene codec (use_selection)
  encodeCalls,         \* number of invocations of the codec's encode step
  meta_properties,     \* "properties" written to nx3.txt
  destFile,            \* file at export_path: "none", "old" or "new"
  reports,             \* messages passed to self.report
  zip_ok,              \* import: the archive is a readable zip
  entries,             \* import: os.listdir(temp_dir) after extraction
  metadata_text,       \* import: parsed content of the metadata entry
  glb_path,            \* import: entry chosen as the model
  txt_path,            \* import: entry chosen as the metadata
  safetensor_path,     \* import: entry chosen as the weights
  properties_data,     \* import: data["properties"] or None
  decoded,             \* import: what the codec creates from the model payload
  new_objects,         \* import: identities of the newly imported objects
  afterDecode,         \* import: bpy.data.objects right after decoding
  visited,             \* import: new objects reached by the matching pass
  sizes,               \* import: declared uncompressed size of each archive entry
  extractedFiles,      \* import: number of files extractall wrote to temp_dir
  decodeCalls,         \* import: number of invocations of the codec's decode step
  archive              \* export: the entries written to temp_export.zip

vars == <<pc, result, objects, datablocks, active, scene0, data0,
          apply_modifiers, combine_meshes, base_filename, original_selection,
          dupIndex, duplicated_object_names, encoded, encodeCalls,
          meta_properties, archive, destFile, reports, zip_ok, sizes, entries, metadata_text,
          glb_path, extractedFiles, txt_path, safetensor_path, properties_data, decoded, decodeCalls,
          new_objects, afterDecode, visited>>

exportVars == <<apply_modifiers, combine_meshes, base_filename,
                original_selection, dupIndex, duplicated_object_names,
                encoded, encodeCalls, meta_properties, archive, destFile>>

importVars == <<zip_ok, sizes, entries, metadata_text, glb_path, extractedFiles, txt_path,
                safetensor_path, properties_data, decoded, decodeCalls, new_objects,
                afterDecode, visited>>

----------------------------------------------------------------------------
(* Bounds *)

\* largest numeric disambiguation suffix the host is asked for
MaxSuffix == 8

----------------------------------------------------------------------------
(* Values: JSON values and custom-property values *)

None == [t |-> "none", v |-> 0]
VInt(n) == [t |-> "int", v |-> n]
VStr(s) == [t |-> "str", v |-> s]
VFloat(m, e) == [t |-> "float", v |-> <<m, e>>]
VDict(d) == [t |-> "dict", v |-> d]
VBool(b) == [t |-> "bool", v |-> b]
VList(l) == [t |-> "list", v |-> l]

EmptyDict == [k \in {} |-> None]

IsDict(x) == x.t = "dict"

IsStr(x) == x.t = "str"

\* d with key k set to value x (obj[key] = value on a mapping)
DictSet(d, k, x) == [j \in DOMAIN d \cup {k} |-> IF j = k THEN x ELSE d[j]]

\* d without key k (del obj[key])
DictDel(d, k) == [j \in DOMAIN d \ {k} |-> d[j]]

RNA_UI == <<"_RNA_UI">>

----------------------------------------------------------------------------
(* Text to number conversion (ImportNX3.apply_properties) *)

DigitChars == <<"0", "1", "2", "3", "4", "5", "6", "7", "8", "9">>

IsDigit(c) == \E d \in 1..10 : DigitChars[d] = c

DigitVal(c) == (CHOOSE d \in 1..10 : DigitChars[d] = c) - 1

\* int(s) succeeds: a non-empty run of decimal digits
ParsesInt(s) == Len(s) > 0 /\ \A i \in 1..Len(s) : IsDigit(s[i])

RECURSIVE IntValue(_)
IntValue(s) ==
  IF s = <<>> THEN 0
  ELSE 10 * IntValue(SubSeq(s, 1, Len(s) - 1)) + DigitVal(s[Len(s)])

\* float(s) succeeds on text with a '.': one '.', digits around it, one digit at least
ParsesFloat(s) ==
  /\ Cardinality({i \in 1..Len(s) : s[i] = "."}) = 1
  /\ \A i \in 1..Len(s) : s[i] = "." \/ IsDigit(s[i])
  /\ \E i \in 1..Len(s) : IsDigit(s[i])

RECURSIVE Normalised(_, _)
Normalised(m, e) ==
  IF e > 0 /\ m % 10 = 0 THEN Normalised(m \div 10, e - 1) ELSE VFloat(m, e)

\* float(s) as mantissa and number of decimals, trailing zeros dropped
FloatValue(s) ==
  LET dot == CHOOSE i \in 1..Len(s) : s[i] = "."
      digits == SubSeq(s, 1, dot - 1) \o SubSeq(s, dot + 1, Len(s))
  IN Normalised(IntValue(digits), Len(s) - dot)

\* the value apply_properties stores for value
coerce(value) ==
  IF ~IsStr(value) THEN value
  ELSE IF "." \in {value.v[i] : i \in 1..Len(value.v)}
         THEN IF ParsesFloat(value.v) THEN FloatValue(value.v) ELSE value
         ELSE IF ParsesInt(value.v) THEN VInt(IntValue(value.v)) ELSE value

----------------------------------------------------------------------------
(* Host scene: names *)

SuffixText == <<"001", "002", "003", "004", "005", "006",
                "007", "008", "009", "010", "011", "012">>

SuffixSet == {SuffixText[n] : n \in 1..Len(SuffixText)}

\* the name without its trailing numeric suffix
NameStem(name) ==
  IF Len(name) > 1 /\ name[Len(name)] \in SuffixSet
    THEN SubSeq(name, 1, Len(name) - 1)
    ELSE name

\* the name the host assigns when name is requested and used is taken
UniqueName(name, used) ==
  IF name \notin used THEN name
  ELSE LET stem == NameStem(name)
           free == {n \in 1..MaxSuffix : Append(stem, SuffixText[n]) \notin used}
           n == CHOOSE m \in free : \A k \in free : m <= k
       IN Append(stem, SuffixText[n])

NamesOf(objs) == {objs[i].name : i \in DOMAIN objs}

NameIn(objs, name) == name \in NamesOf(objs)

\* bpy.data.objects[name]
ObjByName(objs, name) == CHOOSE i \in DOMAIN objs : objs[i].name = name

Max(S) == CHOOSE m \in S : \A k \in S : k <= m

NewId(f) == Max(DOMAIN f \cup {0}) + 1

\* the identities of S in the host's collection order
RECURSIVE SortedIds(_)
SortedIds(S) ==
  IF S = {} THEN <<>>
  ELSE LET m == Max(S) IN Append(SortedIds(S \ {m}), m)

\* context.selected_objects
SelectedIds(objs) == {i \in DOMAIN objs : objs[i].selected}

selected_objects(objs) == SortedIds(SelectedIds(objs))

\* bpy.ops.object.select_all(action='DESELECT')
DeselectAll(objs) == [i \in DOMAIN objs |-> [objs[i] EXCEPT !.selected = FALSE]]

\* bpy.data.objects.remove for every identity of gone
RemoveObjects(objs, gone) == [i \in DOMAIN objs \ gone |-> objs[i]]

Range(s) == {s[i] : i \in 1..Len(s)}

----------------------------------------------------------------------------
(* Scenes the export starts from *)

Obj(n, t, d, m, p, s) ==
  [name |-> n, type |-> t, data |-> d, modifiers |-> m, props |-> p, selected |-> s]

PropsA == [k \in {<<"a">>, <<"w">>} |-> IF k = <<"a">> THEN VInt(12) ELSE VFloat(25, 1)]

PropsB == [k \in {<<"b">>, RNA_UI} |->
             IF k = RNA_UI THEN VDict([j \in {<<"b">>} |-> VStr(<<>>)])
             ELSE VStr(<<"4", "2">>)]

\* the objects a scene is drawn from, in the host's collection order
Pool == <<
  Obj(<<"Axis">>, "EMPTY", 0, <<>>, PropsB, FALSE),
  Obj(<<"Cube">>, "MESH", 2, <<"Subsurf", "Bevel", "Array">>, PropsA, FALSE),
  Obj(<<"Lamp">>, "LIGHT", 3, <<>>, EmptyDict, FALSE),
  Obj(<<"Cube", "001">>, "MESH", 4, <<"Mirror">>, EmptyDict, FALSE),
  Obj(<<"Out">>, "MESH", 5, <<>>, PropsB, FALSE) >>

PoolData == [d \in {2, 3, 4, 5} |-> {<<"geometry", SuffixText[d]>>}]

BaseNames == {<<"Out">>, <<"Export">>}

IdleImport ==
  /\ zip_ok = TRUE
  /\ entries = <<>>
  /\ metadata_text = None
  /\ glb_path = 0
  /\ txt_path = 0
  /\ safetensor_path = 0
  /\ properties_data = None
  /\ decoded = <<>>
  /\ new_objects = <<>>
  /\ afterDecode = EmptyDict
  /\ visited = {}
  /\ sizes = <<>>
  /\ extractedFiles = 0
  /\ decodeCalls = 0

InitExport ==
  /\ pc = "start"
  /\ result = "NONE"
  /\ \E ids \in SUBSET (1..Len(Pool)) : \E sel \in SUBSET ids :
       /\ objects = [i \in ids |-> [Pool[i] EXCEPT !.selected = (i \in sel)]]
       /\ datablocks = [d \in {Pool[i].data : i \in ids} \ {0} |-> PoolData[d]]
  /\ active = 0
  /\ scene0 = objects
  /\ data0 = datablocks
  /\ apply_modifiers \in BOOLEAN
  /\ combine_meshes \in BOOLEAN
  /\ base_filename \in BaseNames
  /\ original_selection = <<>>
  /\ dupIndex = 0
  /\ duplicated_object_names = <<>>
  /\ encoded = {}
  /\ encodeCalls = 0
  /\ meta_properties = None
  /\ archive = <<>>
  /\ destFile \in {"none", "old"}
  /\ reports = {}
  /\ IdleImport

----------------------------------------------------------------------------
(* ExportNX3.execute *)

\* os.remove(export_path) fails: the export is cancelled
ExportDestinationBusy ==
  /\ pc = "start"
  /\ destFile = "old"
  /\ pc' = "done"
  /\ result' = "CANCELLED"
  /\ reports' = reports \cup {"Cannot overwrite existing file"}
  /\ UNCHANGED <<objects, datablocks, active, scene0, data0, exportVars, importVars>>

\* the empty-selection branch without its return {'CANCELLED'}: the error
\* is reported and execute goes on to the encode step
ExportNothingSelected_noReturn ==
  /\ pc = "start"
  /\ selected_objects(objects) = <<>>
  /\ destFile' = "none"
  /\ pc' = "encode"
  /\ reports' = reports \cup {"No objects selected for export."}
  /\ UNCHANGED <<result, objects, datablocks, active, scene0, data0, apply_modifiers,
                 combine_meshes, base_filename, original_selection, dupIndex,
                 duplicated_object_names, encoded, encodeCalls, meta_properties, archive,
                 importVars>>

\* the prior file is removed, then the selection turns out to be empty
ExportNothingSelected ==
  /\ pc = "start"
  /\ selected_objects(objects) = <<>>
  /\ destFile' = "none"
  /\ pc' = "done"
  /\ result' = "CANCELLED"
  /\ reports' = reports \cup {"No objects selected for export."}
  /\ UNCHANGED <<objects, datablocks, active, scene0, data0, apply_modifiers,
                 combine_meshes, base_filename, original_selection, dupIndex,
                 duplicated_object_names, encoded, encodeCalls, meta_properties, archive,
                 importVars>>

\* the prior file is removed, the selection is recorded and cleared
ExportBegin ==
  /\ pc = "start"
  /\ selected_objects(objects) # <<>>
  /\ destFile' = "none"
  /\ original_selection' = selected_objects(objects)
  /\ objects' = DeselectAll(objects)
  /\ duplicated_object_names' = <<>>
  /\ dupIndex' = 1
  /\ pc' = "dup"
  /\ UNCHANGED <<result, datablocks, active, scene0, data0, apply_modifiers,
                 combine_meshes, base_filename, encoded, encodeCalls,
                 meta_properties, archive, reports, importVars>>

\* how "for mod in new_obj.modifiers" proceeds once modifier_apply has
\* removed the element the iterator stands on
IterModes == {"all", "skip", "stop"}

RECURSIVE EveryOther(_)
EveryOther(mods) ==
  IF Len(mods) < 2 THEN <<>>
  ELSE <<mods[2]>> \o EveryOther(SubSeq(mods, 3, Len(mods)))

\* the modifiers left on the duplicate after the apply loop
ModifiersLeft(mods, mode) ==
  IF mods = <<>> THEN <<>>
  ELSE CASE mode = "all" -> <<>>
         [] mode = "skip" -> EveryOther(mods)
         [] mode = "stop" -> Tail(mods)

\* one iteration of the duplication loop
ExportDuplicate ==
  /\ pc = "dup"
  /\ dupIndex <= Len(original_selection)
  /\ \E mode \in IterModes :
       LET obj == objects[original_selection[dupIndex]]
           nid == NewId(objects)
           did == IF obj.data = 0 THEN 0 ELSE NewId(datablocks)
           nname == UniqueName(obj.name, NamesOf(objects))
           bake == obj.type = "MESH" /\ apply_modifiers
           left == IF bake THEN ModifiersLeft(obj.modifiers, mode) ELSE obj.modifiers
           baked == Range(obj.modifiers) \ Range(left)
           new_obj == [obj EXCEPT !.name = nname, !.data = did,
                                  !.modifiers = left, !.selected = FALSE]
       IN /\ objects' = [i \in DOMAIN objects \cup {nid} |->
                           IF i = nid THEN new_obj ELSE objects[i]]
          /\ datablocks' =
               IF did = 0 THEN datablocks
               ELSE [d \in DOMAIN datablocks \cup {did} |->
                       IF d = did
                         THEN datablocks[obj.data] \cup {<<"baked", m>> : m \in baked}
                         ELSE datablocks[d]]
          /\ active' = nid
          /\ duplicated_object_names' = Append(duplicated_object_names, nname)
  /\ dupIndex' = dupIndex + 1
  /\ pc' = IF dupIndex = Len(original_selection) THEN "stage" ELSE "dup"
  /\ UNCHANGED <<result, scene0, data0, apply_modifiers, combine_meshes,
                 base_filename, original_selection, encoded, encodeCalls,
                 meta_properties, archive, destFile, reports, importVars>>

\* the names of the tracked duplicates that are meshes, in list order
mesh_names(objs, names) ==
  SelectSeq(names, LAMBDA n : objs[ObjByName(objs, n)].type = "MESH")

\* UpdatedList with the requested name tracked instead of merged_obj.name
UpdatedList_requested(names, meshes, merged_name) ==
  LET kept == SelectSeq(names, LAMBDA n : n \notin Range(Tail(meshes)))
  IN [i \in 1..Len(kept) |-> IF kept[i] = meshes[1] THEN base_filename ELSE kept[i]]

\* UpdatedList that forgets to skip the consumed meshes
UpdatedList_keepsConsumed(names, meshes, merged_name) ==
  [i \in 1..Len(names) |-> IF names[i] = meshes[1] THEN merged_name ELSE names[i]]

\* the tracked list after the merge: the survivor renamed, the others dropped
UpdatedList(names, meshes, merged_name) ==
  LET kept == SelectSeq(names, LAMBDA n : n \notin Range(Tail(meshes)))
  IN [i \in 1..Len(kept) |-> IF kept[i] = meshes[1] THEN merged_name ELSE kept[i]]

\* select exactly the objects named in names
SelectNamed(objs, names) ==
  [i \in DOMAIN objs |-> [objs[i] EXCEPT !.selected = (objs[i].name \in Range(names))]]

\* combine_meshes with at least one mesh duplicate: join, rename, retrack
ExportMerge ==
  /\ pc = "stage"
  /\ combine_meshes
  /\ mesh_names(objects, duplicated_object_names) # <<>>
  /\ LET meshes == mesh_names(objects, duplicated_object_names)
         mid == ObjByName(objects, meshes[1])
         others == {ObjByName(objects, meshes[i]) : i \in 2..Len(meshes)}
         joined == UNION {datablocks[objects[i].data] : i \in others \cup {mid}}
         rest == RemoveObjects(objects, others)
         merged_name == UniqueName(base_filename, NamesOf(rest) \ {rest[mid].name})
     IN /\ objects' = [i \in DOMAIN rest |->
                         IF i = mid
                           THEN [rest[i] EXCEPT !.name = merged_name, !.selected = TRUE]
                           ELSE [rest[i] EXCEPT !.selected = FALSE]]
        /\ datablocks' = [datablocks EXCEPT ![objects[mid].data] = joined]
        /\ duplicated_object_names' =
             UpdatedList(duplicated_object_names, meshes, merged_name)
        /\ active' = mid
  /\ pc' = "encode"
  /\ UNCHANGED <<result, scene0, data0, apply_modifiers, combine_meshes,
                 base_filename, original_selection, dupIndex, encoded,
                 encodeCalls, meta_properties, archive, destFile, reports, importVars>>

\* combine_meshes without any mesh duplicate: warn, select all duplicates
ExportNoMeshes ==
  /\ pc = "stage"
  /\ combine_meshes
  /\ mesh_names(objects, duplicated_object_names) = <<>>
  /\ reports' = reports \cup {"No MESH objects to combine."}
  /\ objects' = SelectNamed(objects, duplicated_object_names)
  /\ active' = ObjByName(objects, duplicated_object_names[1])
  /\ pc' = "encode"
  /\ UNCHANGED <<result, datablocks, scene0, data0, exportVars, importVars>>

\* combine_meshes off: select all duplicates
ExportSelectAll ==
  /\ pc = "stage"
  /\ ~combine_meshes
  /\ objects' = SelectNamed(objects, duplicated_object_names)
  /\ active' = ObjByName(objects, duplicated_object_names[1])
  /\ pc' = "encode"
  /\ UNCHANGED <<result, datablocks, scene0, data0, exportVars, reports, importVars>>

\* bpy.ops.export_scene.gltf(use_selection=True) writes model.glb
ExportEncode ==
  /\ pc = "encode"
  /\ encoded' = SelectedIds(objects)
  /\ encodeCalls' = encodeCalls + 1
  /\ pc' = "write"
  /\ UNCHANGED <<result, objects, datablocks, active, scene0, data0,
                 apply_modifiers, combine_meshes, base_filename,
                 original_selection, dupIndex, duplicated_object_names,
                 meta_properties, archive, destFile, reports, importVars>>

\* the codec raises: the exception leaves execute
ExportEncodeRaises ==
  /\ pc = "encode"
  /\ encodeCalls' = encodeCalls + 1
  /\ pc' = "done"
  /\ result' = "EXCEPTION"
  /\ reports' = reports \cup {"encode raised"}
  /\ UNCHANGED <<objects, datablocks, active, scene0, data0, apply_modifiers,
                 combine_meshes, base_filename, original_selection, dupIndex,
                 duplicated_object_names, encoded, meta_properties, archive, destFile,
                 importVars>>

\* get_custom_properties without the test that skips '_RNA_UI'
get_custom_properties_all(obj) == obj.props

get_custom_properties(obj) == DictDel(obj.props, RNA_UI)

\* the "properties" value gathered for nx3.txt
ExportProperties(objs, combine) ==
  LET sel == selected_objects(objs)
  IN IF combine /\ sel # <<>>
       THEN VDict(get_custom_properties(objs[sel[Len(sel)]]))
       ELSE LET with == {i \in Range(sel) : get_custom_properties(objs[i]) # EmptyDict}
            IN VDict([n \in {objs[i].name : i \in with} |->
                        VDict(get_custom_properties(objs[ObjByName(objs, n)]))])

\* the decimal digits of a natural number
RECURSIVE IntToDigits(_)
IntToDigits(n) ==
  IF n < 10 THEN <<DigitChars[n + 1]>>
  ELSE Append(IntToDigits(n \div 10), DigitChars[(n % 10) + 1])

RECURSIVE ZeroPadded(_, _)
ZeroPadded(digits, len) ==
  IF Len(digits) >= len THEN digits ELSE ZeroPadded(<<"0">> \o digits, len)

\* repr of a float: digits, '.', decimals ("4.0" when there are none)
FloatToText(m, e) ==
  IF e = 0 THEN IntToDigits(m) \o <<".", "0">>
  ELSE LET d == ZeroPadded(IntToDigits(m), e + 1)
       IN SubSeq(d, 1, Len(d) - e) \o <<".">> \o SubSeq(d, Len(d) - e + 1, Len(d))

\* json.dump: the JSON text of a value, as a tree of literals
RECURSIVE JsonDump(_)
JsonDump(x) ==
  CASE x.t = "int" -> [t |-> "number", v |-> IntToDigits(x.v)]
    [] x.t = "float" -> [t |-> "number", v |-> FloatToText(x.v[1], x.v[2])]
    [] x.t = "str" -> [t |-> "string", v |-> x.v]
    [] x.t = "bool" -> [t |-> "literal", v |-> IF x.v THEN <<"true">> ELSE <<"false">>]
    [] x.t = "none" -> [t |-> "literal", v |-> <<"null">>]
    [] x.t = "list" -> [t |-> "array", v |-> [i \in 1..Len(x.v) |-> JsonDump(x.v[i])]]
    [] x.t = "dict" -> [t |-> "object", v |-> [k \in DOMAIN x.v |-> JsonDump(x.v[k])]]

\* json.load: the value a JSON text stands for
RECURSIVE JsonLoad(_)
JsonLoad(j) ==
  CASE j.t = "number" ->
         IF "." \in {j.v[i] : i \in 1..Len(j.v)} THEN FloatValue(j.v)
         ELSE VInt(IntValue(j.v))
    [] j.t = "string" -> VStr(j.v)
    [] j.t = "literal" ->
         IF j.v = <<"null">> THEN None ELSE VBool(j.v = <<"true">>)
    [] j.t = "array" -> VList([i \in 1..Len(j.v) |-> JsonLoad(j.v[i])])
    [] j.t = "object" -> VDict([k \in DOMAIN j.v |-> JsonLoad(j.v[k])])

\* the metadata document json.dump writes to nx3.txt
ExportDocument(properties) ==
  VDict([k \in {<<"version">>, <<"type">>, <<"properties">>} |->
           IF k = <<"properties">> THEN properties
           ELSE IF k = <<"version">> THEN VStr(<<"1", ".", "0">>)
           ELSE VStr(<<"nx3_properties">>)])

\* what the codec writes to model.glb: the selected objects, without extras
EncodedPayload(objs) ==
  LET sel == selected_objects(objs)
  IN [i \in 1..Len(sel) |->
        [name |-> objs[sel[i]].name, type |-> objs[sel[i]].type, props |-> EmptyDict]]

\* PackedArchive with the metadata entry written under the name nx3.json
PackedArchive_json(payload, text) ==
  << [name |-> <<"model", "glb">>, payload |-> payload, doc |-> None],
     [name |-> <<"nx3", "json">>, payload |-> <<>>, doc |-> text],
     [name |-> <<"nx3", "safetensor">>, payload |-> <<>>, doc |-> None] >>

\* the three entries of temp_export.zip, in the order they are written
PackedArchive(payload, text) ==
  << [name |-> <<"model", "glb">>, payload |-> payload, doc |-> None],
     [name |-> <<"nx3", "txt">>, payload |-> <<>>, doc |-> text],
     [name |-> <<"nx3", "safetensor">>, payload |-> <<>>, doc |-> None] >>

\* nx3.txt, nx3.safetensor and temp_export.zip are written
ExportWrite ==
  /\ pc = "write"
  /\ meta_properties' = ExportProperties(objects, combine_meshes)
  /\ archive' = PackedArchive(EncodedPayload(objects),
                              JsonDump(ExportDocument(meta_properties')))
  /\ pc' = "move"
  /\ UNCHANGED <<result, objects, datablocks, active, scene0, data0,
                 apply_modifiers, combine_meshes, base_filename,
                 original_selection, dupIndex, duplicated_object_names,
                 encoded, encodeCalls, destFile, reports, importVars>>

\* writing one of the files raises: the exception leaves execute
ExportWriteRaises ==
  /\ pc = "write"
  /\ pc' = "done"
  /\ result' = "EXCEPTION"
  /\ reports' = reports \cup {"write raised"}
  /\ UNCHANGED <<objects, datablocks, active, scene0, data0, exportVars, importVars>>

\* shutil.move puts the archive at export_path
ExportMove ==
  /\ pc = "move"
  /\ destFile' = "new"
  /\ pc' = "cleanup"
  /\ UNCHANGED <<result, objects, datablocks, active, scene0, data0,
                 apply_modifiers, combine_meshes, base_filename,
                 original_selection, dupIndex, duplicated_object_names,
                 encoded, encodeCalls, meta_properties, archive, reports, importVars>>

\* shutil.move fails: the export is cancelled
ExportMoveFails ==
  /\ pc = "move"
  /\ pc' = "done"
  /\ result' = "CANCELLED"
  /\ reports' = reports \cup {"Failed to save file"}
  /\ UNCHANGED <<objects, datablocks, active, scene0, data0, exportVars, importVars>>

\* the tracked duplicates are removed by name
ExportCleanup ==
  /\ pc = "cleanup"
  /\ objects' = RemoveObjects(objects,
                  {i \in DOMAIN objects : objects[i].name \in Range(duplicated_object_names)})
  /\ pc' = "done"
  /\ result' = "FINISHED"
  /\ reports' = reports \cup {"Exported NX3"}
  /\ UNCHANGED <<datablocks, active, scene0, data0, exportVars, importVars>>

NextExport ==
  \/ ExportDestinationBusy
  \/ ExportNothingSelected
  \/ ExportBegin
  \/ ExportDuplicate
  \/ ExportMerge
  \/ ExportNoMeshes
  \/ ExportSelectAll
  \/ ExportEncode
  \/ ExportEncodeRaises
  \/ ExportWrite
  \/ ExportWriteRaises
  \/ ExportMove
  \/ ExportMoveFails
  \/ ExportCleanup

SpecExport == InitExport /\ [][NextExport]_vars

TypeOKExport ==
  /\ pc \in {"start", "dup", "stage", "encode", "write", "move", "cleanup", "done"}
  /\ result \in {"NONE", "FINISHED", "CANCELLED", "EXCEPTION"}

----------------------------------------------------------------------------
(* Export: properties *)

\* identities the export created: everything that was not there at the start
Staged(objs) == DOMAIN objs \ DOMAIN scene0

\* object i is as it was when the export started (selection flag aside)
Untouched(i) ==
  /\ i \in DOMAIN objects
  /\ objects[i].name = scene0[i].name
  /\ objects[i].type = scene0[i].type
  /\ objects[i].data = scene0[i].data
  /\ objects[i].modifiers = scene0[i].modifiers
  /\ objects[i].props = scene0[i].props
  /\ objects[i].data # 0 => datablocks[objects[i].data] = data0[objects[i].data]

\* the objects the tracked names refer to
TrackedIds == {i \in DOMAIN objects : objects[i].name \in Range(duplicated_object_names)}

\* C1: if the codec's encode step raises after staging, then when execute
\* returns no staged object is left in the scene and every object of the
\* original selection is still present and unmodified.
C1_CleanupAfterEncodeFailure ==
  (pc = "done" /\ "encode raised" \in reports) =>
     /\ Staged(objects) = {}
     /\ \A i \in Range(original_selection) : Untouched(i)

\* C2: on every exit path taken after at least one duplicate was created,
\* the duplicates named in the tracked list are gone from the scene when the
\* export returns.
C2_DuplicatesRemovedOnEveryExit ==
  (pc = "done" /\ duplicated_object_names # <<>>) =>
     \A n \in Range(duplicated_object_names) : ~NameIn(objects, n)

\* C3: only duplicates are ever modified, renamed, merged or removed; no
\* tracked name ever refers to an object that existed before the export; and
\* a successful export leaves exactly the objects the scene had before.
C3_OriginalsPreserved ==
  /\ \A i \in DOMAIN scene0 : Untouched(i)
  /\ TrackedIds \cap DOMAIN scene0 = {}
  /\ result = "FINISHED" => DOMAIN objects = DOMAIN scene0

\* a successful merged export whose base file name was already an object name
C3_Witness ==
  /\ result = "FINISHED"
  /\ combine_meshes /\ apply_modifiers
  /\ Len(original_selection) >= 3
  /\ base_filename \in NamesOf(scene0)
  /\ \E i \in Range(original_selection) :
       scene0[i].type = "MESH" /\ scene0[i].modifiers # <<>>

\* C4: when the codec's encode step is invoked, the selected objects are
\* exactly the objects named in the tracked duplicate list.
C4_EncodesTrackedSelection ==
  pc = "encode" => SelectedIds(objects) = TrackedIds

\* positions of the mesh duplicates in a tracked list
MeshPositions(objs, names) ==
  {j \in 1..Len(names) : objs[ObjByName(objs, names[j])].type = "MESH"}

Min(S) == CHOOSE m \in S : \A k \in S : m <= k

\* the positions of names that survive the merge, in order
KeptPositions(objs, names) ==
  LET mp == MeshPositions(objs, names)
  IN SortedIds((1..Len(names)) \ (mp \ {Min(mp)}))

\* the merge step was taken with at least one mesh duplicate
MergeStep ==
  /\ pc = "stage" /\ pc' = "encode" /\ combine_meshes
  /\ MeshPositions(objects, duplicated_object_names) # {}

\* the tracked list after the merge holds merged_name where the first mesh
\* duplicate was, drops the other meshes and keeps the rest in order
MergeBookkeeping(merged_name) ==
  LET old == duplicated_object_names
      new == duplicated_object_names'
      mp == MeshPositions(objects, old)
      kept == KeptPositions(objects, old)
  IN /\ Len(new) = 1 + (Len(old) - Cardinality(mp))
     /\ Len(new) = Len(kept)
     /\ \A i \in 1..Len(new) :
          new[i] = IF kept[i] = Min(mp) THEN merged_name ELSE old[kept[i]]
     /\ \A i \in 1..Len(new) : \A j \in mp \ {Min(mp)} :
          kept[i] # Min(mp) => new[i] # old[j]

----------------------------------------------------------------------------
(* Archives and scenes the import starts from *)

Malformed == [t |-> "malformed", v |-> 0]

Absent == [t |-> "absent", v |-> 0]

\* a metadata document {"version": ..., "type": ..., "properties": p}
MetaDoc(p) ==
  VDict([k \in {<<"version">>, <<"type">>, <<"properties">>} |->
           IF k = <<"properties">> THEN p
           ELSE IF k = <<"version">> THEN VStr(<<"1", ".", "0">>)
           ELSE VStr(<<"n", "x", "3">>)])

\* a metadata document without a "properties" member
MetaDocBare == VDict([k \in {<<"version">>} |-> VStr(<<"1", ".", "0">>)])

PS1 == [k \in {<<"a">>, <<"n">>} |->
          IF k = <<"a">> THEN VStr(<<"3", ".", "5">>) ELSE VInt(7)]

PS2 == [k \in {<<"a">>, <<"b">>, <<"x">>} |->
          IF k = <<"a">> THEN VStr(<<"v", "2", ".", "0">>)
          ELSE IF k = <<"b">> THEN VStr(<<"4", "2">>)
          ELSE None]

\* what each top-level key of "properties" may hold
PropChoices ==
  [Cube : {Absent, VInt(5), VDict(PS1), VDict(PS2)},
   Cube001 : {Absent, VDict(PS2)},
   Node : {Absent, VDict(PS1)},
   my : {Absent, VDict(PS1)},
   mypart : {Absent, VInt(5), VDict(PS1)},
   a : {Absent, VStr(<<"4", "2">>), None, VInt(7)}]

PropKeyOf ==
  [Cube |-> <<"Cube">>, Cube001 |-> <<"Cube", "001">>, Node |-> <<"Node">>,
   my |-> <<"my">>, mypart |-> <<"my", "part">>, a |-> <<"a">>]

\* the mapping a choice stands for
PropertiesOf(c) ==
  LET present == {f \in DOMAIN c : c[f] # Absent}
  IN VDict([k \in {PropKeyOf[f] : f \in present} |->
              c[CHOOSE f \in present : PropKeyOf[f] = k]])

PropertiesInputs == {PropertiesOf(c) : c \in PropChoices}

\* objects a model payload may hold, listed in name order
Decodable == <<
  [name |-> <<"Cube">>, type |-> "MESH", props |-> EmptyDict],
  [name |-> <<"Node">>, type |-> "EMPTY", props |-> [k \in {<<"extra">>} |-> VInt(1)]],
  [name |-> <<"my", "part">>, type |-> "MESH", props |-> [k \in {<<"a">>} |-> VInt(0)]] >>

RECURSIVE SubSeqs(_)
SubSeqs(s) ==
  IF s = <<>> THEN {<<>>}
  ELSE LET r == SubSeqs(Tail(s)) IN r \cup {<<Head(s)>> \o t : t \in r}

Payloads == SubSeqs(Decodable)

\* objects that may be in the scene before the import
Existing == <<
  Obj(<<"Cube">>, "MESH", 1, <<>>, PropsA, FALSE),
  Obj(<<"my", "part">>, "MESH", 2, <<>>, EmptyDict, FALSE) >>

Entry(n, pl, d) == [name |-> n, payload |-> pl, doc |-> d]

Perms(S) ==
  {f \in [1..Cardinality(S) -> S] : \A i, j \in 1..Cardinality(S) : i # j => f[i] # f[j]}

\* the canonical archive ExportNX3 writes
CanonicalArchive(pl, d) ==
  << Entry(<<"model", "glb">>, pl, None),
     Entry(<<"nx3", "safetensor">>, <<>>, None),
     Entry(<<"nx3", "txt">>, <<>>, d) >>

\* other archives: metadata as .json, upper-case names, no model, two models
OtherArchives(pl, d) ==
  LET other == <<Decodable[2]>>
  IN UNION {Perms(fs) : fs \in {
       {Entry(<<"model", "glb">>, pl, None), Entry(<<"nx3", "json">>, <<>>, d)},
       {Entry(<<"MODEL", "GLB">>, pl, None), Entry(<<"NX3", "TXT">>, <<>>, d)},
       {Entry(<<"nx3", "txt">>, <<>>, d), Entry(<<"nx3", "safetensor">>, <<>>, None)},
       {Entry(<<"a", "glb">>, pl, None), Entry(<<"b", "glb">>, other, None),
        Entry(<<"nx3", "txt">>, <<>>, d)},
       {Entry(<<"model", "glb">>, pl, None)} }}

SmallDocs ==
  {Malformed, VList(<<VInt(1)>>), MetaDocBare, MetaDoc(VDict(EmptyDict)),
   MetaDoc(VDict(PS1)), MetaDoc(VList(<<VInt(1)>>))}

\* declared uncompressed sizes an entry may have, in GiB
EntrySizes == {1, 3}

IdleExport ==
  /\ apply_modifiers = TRUE
  /\ combine_meshes = TRUE
  /\ base_filename = <<>>
  /\ original_selection = <<>>
  /\ dupIndex = 0
  /\ duplicated_object_names = <<>>
  /\ encoded = {}
  /\ encodeCalls = 0
  /\ meta_properties = None
  /\ archive = <<>>
  /\ destFile = "none"

InitImport ==
  /\ pc = "unzip"
  /\ result = "NONE"
  /\ \E ids \in SUBSET (1..Len(Existing)) :
       /\ objects = [i \in ids |-> Existing[i]]
       /\ datablocks = [d \in ids |-> {<<"geometry", SuffixText[d]>>}]
  /\ active = 0
  /\ scene0 = objects
  /\ data0 = datablocks
  /\ \E pl \in Payloads :
       \/ /\ zip_ok = TRUE
          /\ \E p \in PropertiesInputs : entries = CanonicalArchive(pl, MetaDoc(p))
          /\ sizes = [i \in 1..Len(entries) |-> 1]
       \/ /\ zip_ok \in BOOLEAN
          /\ \E d \in SmallDocs : entries \in OtherArchives(pl, d)
          /\ \E gib \in EntrySizes : sizes = [i \in 1..Len(entries) |-> gib]
  /\ metadata_text = None
  /\ glb_path = 0
  /\ txt_path = 0
  /\ safetensor_path = 0
  /\ properties_data = None
  /\ decoded = <<>>
  /\ new_objects = <<>>
  /\ afterDecode = EmptyDict
  /\ visited = {}
  /\ extractedFiles = 0
  /\ decodeCalls = 0
  /\ reports = {}
  /\ IdleExport

----------------------------------------------------------------------------
(* ImportNX3.execute *)

LowerMap ==
  [u \in {"GLB", "TXT", "JSON", "SAFETENSOR", "MODEL", "NX3"} |->
     CASE u = "GLB" -> "glb" [] u = "TXT" -> "txt" [] u = "JSON" -> "json"
       [] u = "SAFETENSOR" -> "safetensor" [] u = "MODEL" -> "model"
       [] u = "NX3" -> "nx3"]

\* filename.lower(), segment by segment
Lower(name) ==
  [i \in 1..Len(name) |-> IF name[i] \in DOMAIN LowerMap THEN LowerMap[name[i]] ELSE name[i]]

\* lower_name.endswith("." + ext)
EndsWith(lower_name, ext) ==
  Len(lower_name) >= 2 /\ lower_name[Len(lower_name)] = ext

\* the role the classification loop gives a file name
RoleOf(filename) ==
  LET lower_name == Lower(filename)
  IN IF EndsWith(lower_name, "glb") THEN "glb"
     ELSE IF EndsWith(lower_name, "txt") THEN "txt"
     ELSE IF EndsWith(lower_name, "safetensor") THEN "safetensor"
     ELSE "other"

\* the path the loop over os.listdir leaves in a role's variable (0 = None)
LastOfRole(listing, role) ==
  LET hits == {i \in 1..Len(listing) : RoleOf(listing[i].name) = role}
  IN IF hits = {} THEN 0 ELSE Max(hits)

\* LoadProperties without the isinstance(data, dict) test: a top-level value
\* that is not a mapping is handed on as the properties
LoadProperties_keepsDoc(doc) ==
  IF doc = Malformed THEN None
  ELSE IF IsDict(doc)
         THEN IF <<"properties">> \in DOMAIN doc.v THEN doc.v[<<"properties">>] ELSE None
         ELSE doc

\* json.load of the metadata file followed by the "properties" lookup
LoadProperties(doc) ==
  IF doc = Malformed THEN None
  ELSE IF IsDict(doc) /\ <<"properties">> \in DOMAIN doc.v
         THEN doc.v[<<"properties">>]
         ELSE None

\* zipfile.ZipFile raises BadZipFile
ImportBadZip ==
  /\ pc = "unzip"
  /\ ~zip_ok
  /\ pc' = "done"
  /\ result' = "CANCELLED"
  /\ reports' = reports \cup {"Invalid .nx3 file (cannot unzip)."}
  /\ UNCHANGED <<objects, datablocks, active, scene0, data0, exportVars, importVars>>

\* extract, classify the extracted files, load the properties
ImportUnpack ==
  /\ pc = "unzip"
  /\ zip_ok
  /\ extractedFiles' = Len(entries)
  /\ glb_path' = LastOfRole(entries, "glb")
  /\ txt_path' = LastOfRole(entries, "txt")
  /\ safetensor_path' = LastOfRole(entries, "safetensor")
  /\ metadata_text' = IF txt_path' = 0 THEN None ELSE entries[txt_path'].doc
  /\ properties_data' = IF txt_path' = 0 THEN None ELSE LoadProperties(entries[txt_path'].doc)
  /\ reports' = IF txt_path' # 0 /\ entries[txt_path'].doc = Malformed
                  THEN reports \cup {"Failed to load properties"}
                  ELSE reports
  /\ pc' = "decode"
  /\ UNCHANGED <<result, objects, datablocks, active, scene0, data0, exportVars,
                 zip_ok, sizes, entries, decoded, decodeCalls, new_objects, afterDecode, visited>>

\* the no-model branch without its return {'CANCELLED'}
ImportNoModel_finishes ==
  /\ pc = "decode"
  /\ glb_path = 0
  /\ pc' = "done"
  /\ result' = "FINISHED"
  /\ reports' = reports \cup {"No .glb file found in the NX3 archive."}
  /\ UNCHANGED <<objects, datablocks, active, scene0, data0, exportVars, importVars>>

\* no model entry: the import is cancelled
ImportNoModel ==
  /\ pc = "decode"
  /\ glb_path = 0
  /\ pc' = "done"
  /\ result' = "CANCELLED"
  /\ reports' = reports \cup {"No .glb file found in the NX3 archive."}
  /\ UNCHANGED <<objects, datablocks, active, scene0, data0, exportVars, importVars>>

\* the objects of a payload linked into the scene under host-assigned names
RECURSIVE Link(_, _)
Link(objs, payload) ==
  IF payload = <<>> THEN objs
  ELSE LET t == Head(payload)
           nid == NewId(objs)
           o == Obj(UniqueName(t.name, NamesOf(objs)), t.type,
                    IF t.type = "MESH" THEN nid ELSE 0, <<>>, t.props, TRUE)
       IN Link([i \in DOMAIN objs \cup {nid} |-> IF i = nid THEN o ELSE objs[i]],
               Tail(payload))

\* bpy.ops.import_scene.gltf creates the payload's objects
ImportDecode ==
  /\ pc = "decode"
  /\ glb_path # 0
  /\ decoded' = entries[glb_path].payload
  /\ decodeCalls' = decodeCalls + 1
  /\ objects' = Link(DeselectAll(objects), decoded')
  /\ datablocks' = [d \in DOMAIN datablocks \cup
                            ({objects'[i].data : i \in DOMAIN objects' \ DOMAIN objects} \ {0}) |->
                      IF d \in DOMAIN datablocks THEN datablocks[d]
                      ELSE {<<"geometry", "imported">>}]
  /\ new_objects' = SortedIds(DOMAIN objects' \ DOMAIN objects)
  /\ afterDecode' = objects'
  /\ pc' = "apply"
  /\ UNCHANGED <<result, active, scene0, data0, exportVars, reports, zip_ok, sizes,
                 entries, metadata_text, glb_path, extractedFiles, txt_path, safetensor_path,
                 properties_data, visited>>

\* the codec raises: the exception leaves execute
ImportDecodeRaises ==
  /\ pc = "decode"
  /\ glb_path # 0
  /\ pc' = "done"
  /\ result' = "EXCEPTION"
  /\ reports' = reports \cup {"decode raised"}
  /\ decodeCalls' = decodeCalls + 1
  /\ UNCHANGED <<objects, datablocks, active, scene0, data0, exportVars, zip_ok,
                 sizes, entries, metadata_text, glb_path, extractedFiles, txt_path,
                 safetensor_path, properties_data, decoded, new_objects,
                 afterDecode, visited>>

\* Python truthiness of a JSON value
Truthy(x) ==
  CASE x.t = "none" -> FALSE
    [] x.t = "dict" -> DOMAIN x.v # {}
    [] x.t = "list" -> x.v # <<>>
    [] x.t = "str" -> x.v # <<>>
    [] x.t = "int" -> x.v # 0
    [] x.t = "bool" -> x.v
    [] OTHER -> TRUE

\* the host accepts value as a custom property
Storable(key, value) == value.t # "none"

UIEntry(value) ==
  VDict([k \in {<<"description">>, <<"default">>, <<"is_overridable_library">>} |->
           IF k = <<"description">> THEN VStr(<<>>)
           ELSE IF k = <<"default">> THEN value
           ELSE VBool(TRUE)])

\* the body of the per-key try block: side-table, property, description
SetKey(props, key, value) ==
  LET p1 == IF RNA_UI \notin DOMAIN props THEN DictSet(props, RNA_UI, VDict(EmptyDict))
            ELSE props
  IN IF ~Storable(key, value) THEN p1
     ELSE LET p2 == DictSet(p1, key, value)
          IN DictSet(p2, RNA_UI, VDict(DictSet(p2[RNA_UI].v, key, UIEntry(value))))

\* "for key, value in prop_set.items()" with the per-key try block
RECURSIVE ApplyKeys(_, _)
ApplyKeys(props, prop_set) ==
  IF DOMAIN prop_set = {} THEN props
  ELSE LET k == CHOOSE j \in DOMAIN prop_set : TRUE
       IN ApplyKeys(SetKey(props, k, prop_set[k]), DictDel(prop_set, k))

\* ImportNX3.apply_properties: convert, delete-then-recreate, describe;
\* a key the host refuses is reported and skipped (no caller in execute)
RECURSIVE apply_properties(_, _)
apply_properties(props, properties) ==
  IF DOMAIN properties = {} THEN props
  ELSE LET key == CHOOSE j \in DOMAIN properties : TRUE
           value == coerce(properties[key])
           p1 == DictSet(DictDel(props, key), key, value)
           p2 == IF RNA_UI \notin DOMAIN p1 THEN DictSet(p1, RNA_UI, VDict(EmptyDict))
                 ELSE p1
           p3 == IF key \in DOMAIN p2[RNA_UI].v THEN p2
                 ELSE DictSet(p2, RNA_UI,
                        VDict(DictSet(p2[RNA_UI].v, key,
                                VDict([d \in {<<"description">>} |-> VStr(<<>>)]))))
       IN apply_properties(IF Storable(key, value) THEN p3 ELSE props,
                           DictDel(properties, key))

\* has_nested_dicts with all() in place of any()
has_nested_dicts_all(pd) == \A k \in DOMAIN pd : IsDict(pd[k])

has_nested_dicts(pd) == \E k \in DOMAIN pd : IsDict(pd[k])

\* obj_name.split('.')[0]
base_name(obj_name) == <<obj_name[1]>>

\* the key whose entry the nested rule picks for obj_name: <<key>>, or <<>>
MatchedKey(pd, obj_name) ==
  IF obj_name \in DOMAIN pd THEN <<obj_name>>
  ELSE IF base_name(obj_name) \in DOMAIN pd THEN <<base_name(obj_name)>>
  ELSE <<>>

\* the loop over new_objects under the nested rule; prop_set.items() on an
\* entry that is not a mapping raises and ends the pass
RECURSIVE NestedPass(_, _, _)
NestedPass(objs, ids, pd) ==
  IF ids = <<>> THEN [objs |-> objs, aborted |-> FALSE, visited |-> {}]
  ELSE LET o == Head(ids)
           mk == MatchedKey(pd, objs[o].name)
       IN IF mk = <<>>
            THEN [NestedPass(objs, Tail(ids), pd) EXCEPT !.visited = @ \cup {o}]
          ELSE IF ~IsDict(pd[mk[1]])
            THEN [objs |-> objs, aborted |-> TRUE, visited |-> {o}]
          ELSE [NestedPass([objs EXCEPT ![o].props = ApplyKeys(@, pd[mk[1]].v)],
                           Tail(ids), pd)
                  EXCEPT !.visited = @ \cup {o}]

\* FlatPass without the obj.type == 'MESH' test
FlatPass_allTypes(objs, ids, pd) ==
  [i \in DOMAIN objs |->
     IF i \in Range(ids)
       THEN [objs[i] EXCEPT !.props = ApplyKeys(@, pd)]
       ELSE objs[i]]

\* the loop over new_objects under the flat rule
FlatPass(objs, ids, pd) ==
  [i \in DOMAIN objs |->
     IF i \in Range(ids) /\ objs[i].type = "MESH"
       THEN [objs[i] EXCEPT !.props = ApplyKeys(@, pd)]
       ELSE objs[i]]

\* the properties are applied to the new objects; the import finishes
ImportApply ==
  /\ pc = "apply"
  /\ IF Truthy(properties_data) /\ new_objects # <<>> /\ IsDict(properties_data)
       THEN IF has_nested_dicts(properties_data.v)
              THEN LET r == NestedPass(objects, new_objects, properties_data.v)
                   IN /\ objects' = r.objs
                      /\ visited' = r.visited
                      /\ reports' = reports \cup {"Found multiple property sets"}
                           \cup (IF r.aborted THEN {"Error applying properties"} ELSE {})
              ELSE /\ objects' = FlatPass(objects, new_objects, properties_data.v)
                   /\ visited' = Range(new_objects)
                   /\ reports' = reports \cup {"Found single property set"}
       ELSE UNCHANGED <<objects, visited, reports>>
  /\ pc' = "done"
  /\ result' = "FINISHED"
  /\ UNCHANGED <<datablocks, active, scene0, data0, exportVars, zip_ok, sizes, entries,
                 metadata_text, glb_path, extractedFiles, txt_path, safetensor_path,
                 properties_data, decoded, decodeCalls, new_objects, afterDecode>>

NextImport ==
  \/ ImportBadZip
  \/ ImportUnpack
  \/ ImportNoModel
  \/ ImportDecode
  \/ ImportDecodeRaises
  \/ ImportApply

SpecImport == InitImport /\ [][NextImport]_vars

TypeOKImport ==
  /\ pc \in {"unzip", "decode", "apply", "done"}
  /\ result \in {"NONE", "FINISHED", "CANCELLED", "EXCEPTION"}

----------------------------------------------------------------------------
(* Import: properties *)

ImportFinished == pc = "done" /\ result = "FINISHED"

\* properties_data reaches the matching pass as a mapping
IsMapping(pd) == IsDict(pd)

IsNested(pd) == IsMapping(pd) /\ \E k \in DOMAIN pd.v : IsDict(pd.v[k])

IsFlat(pd) == IsMapping(pd) /\ \A k \in DOMAIN pd.v : ~IsDict(pd.v[k])

\* the pairs the code's own matching rules select for new object o
Selected(o) ==
  IF ~IsMapping(properties_data) THEN EmptyDict
  ELSE IF IsNested(properties_data)
    THEN LET mk == MatchedKey(properties_data.v, afterDecode[o].name)
         IN IF mk # <<>> /\ IsDict(properties_data.v[mk[1]])
              THEN properties_data.v[mk[1]].v
              ELSE EmptyDict
    ELSE IF afterDecode[o].type = "MESH" THEN properties_data.v ELSE EmptyDict

\* object o carries the pair k, v, as read or converted
Has(o, k, v) ==
  /\ k \in DOMAIN objects[o].props
  /\ objects[o].props[k] \in {v, coerce(v)}

\* object o has the custom properties it had right after decoding
AsDecoded(o) == objects[o].props = afterDecode[o].props

\* C6: a failure on one key or one property-set entry is skipped: every new
\* object is still in the scene and carries every pair of its matching set
\* that the host accepts, whatever happened to other keys and other objects.
C6_FailuresAreSkipped ==
  ImportFinished =>
    \A o \in Range(new_objects) :
      /\ o \in DOMAIN objects
      /\ \A k \in DOMAIN Selected(o) :
           Storable(k, Selected(o)[k]) => Has(o, k, Selected(o)[k])

\* C7: every value the import stores as a custom property is coerce(value).
C7_StoredValuesAreCoerced ==
  ImportFinished =>
    \A o \in Range(new_objects) : \A k \in DOMAIN Selected(o) :
      (/\ k \in DOMAIN objects[o].props
       /\ (k \in DOMAIN afterDecode[o].props =>
             objects[o].props[k] # afterDecode[o].props[k]))
      => objects[o].props[k] = coerce(Selected(o)[k])

\* the name with everything from its last separator onward removed
StripLast(name) == IF Len(name) > 1 THEN SubSeq(name, 1, Len(name) - 1) ELSE name

\* the key the nested rule is specified to pick: exact name, else stripped name
SpecifiedKey(pd, name) ==
  IF name \in DOMAIN pd THEN <<name>>
  ELSE IF StripLast(name) \in DOMAIN pd THEN <<StripLast(name)>>
  ELSE <<>>

\* C8: under the nested rule, in a pass that no error cut short, each new
\* object receives the set keyed by its exact name, else the set keyed by
\* its name without the trailing suffix, else nothing.
C8_NestedMatchByName ==
  (ImportFinished /\ IsNested(properties_data) /\ new_objects # <<>>
     /\ "Error applying properties" \notin reports) =>
    \A o \in Range(new_objects) :
      LET sk == SpecifiedKey(properties_data.v, afterDecode[o].name)
      IN IF sk = <<>> THEN AsDecoded(o)
         ELSE LET ps == properties_data.v[sk[1]].v
              IN \A k \in DOMAIN ps : Storable(k, ps[k]) => Has(o, k, ps[k])

\* C9: a properties mapping is handled by the nested rule exactly when one
\* of its values is a mapping and by the flat rule otherwise; the empty
\* mapping changes no object.
C9_ShapeDetection ==
  (ImportFinished /\ IsMapping(properties_data) /\ new_objects # <<>>) =>
    /\ ("Found multiple property sets" \in reports) <=> IsNested(properties_data)
    /\ ("Found single property set" \in reports) <=>
         (IsFlat(properties_data) /\ properties_data.v # EmptyDict)
    /\ IsNested(properties_data) =>
         \A o \in Range(new_objects) :
           MatchedKey(properties_data.v, afterDecode[o].name) = <<>> => AsDecoded(o)
    /\ IsFlat(properties_data) =>
         \A o \in Range(new_objects) : \A k \in DOMAIN properties_data.v :
           (afterDecode[o].type = "MESH" /\ Storable(k, properties_data.v[k]))
             => Has(o, k, properties_data.v[k])
    /\ properties_data.v = EmptyDict => objects = afterDecode

\* a mapping with a mapping value and a plain value was applied to a mesh
C9_Witness ==
  /\ ImportFinished
  /\ IsMapping(properties_data)
  /\ \E j, k \in DOMAIN properties_data.v :
       IsDict(properties_data.v[j]) /\ ~IsDict(properties_data.v[k])
  /\ \E o \in Range(new_objects) : ~AsDecoded(o)

----------------------------------------------------------------------------
(* Import: archive checks *)

\* the cap on the summed declared sizes of an archive, in GiB
SizeCapGiB == 5

RECURSIVE TotalSize(_)
TotalSize(sz) == IF sz = <<>> THEN 0 ELSE Head(sz) + TotalSize(Tail(sz))

\* C11: a readable archive whose summed declared entry sizes exceed the cap
\* is rejected before extraction: no file reaches the temporary directory,
\* no object is added to the scene and the import does not finish.
C11_OversizedArchiveRejected ==
  (zip_ok /\ TotalSize(sizes) > SizeCapGiB) =>
     /\ extractedFiles = 0
     /\ DOMAIN objects = DOMAIN scene0
     /\ pc = "done" => result = "CANCELLED"

\* some entry of the archive has a .glb suffix, in any letter case
HasModelEntry(listing) ==
  \E i \in 1..Len(listing) :
     LET n == listing[i].name
     IN Len(n) >= 2 /\ n[Len(n)] \in {"glb", "GLB"}

ImportErrors ==
  {"Invalid .nx3 file (cannot unzip).", "No .glb file found in the NX3 archive."}

\* C12: an archive that cannot be opened as a container, or that holds no
\* .glb entry, never reaches the decode step and never changes the scene;
\* its import ends cancelled with an error report.
C12_RejectedImportLeavesScene ==
  (~zip_ok \/ ~HasModelEntry(entries)) =>
     /\ objects = scene0
     /\ datablocks = data0
     /\ decodeCalls = 0
     /\ new_objects = <<>>
     /\ visited = {}
     /\ pc = "done" => (result = "CANCELLED" /\ reports \cap ImportErrors # {})

C12_Witness ==
  /\ pc = "done"
  /\ zip_ok
  /\ ~HasModelEntry(entries)
  /\ extractedFiles > 0
  /\ result = "CANCELLED"
  /\ scene0 # EmptyDict

\* the metadata entry the import reads, if any
MetadataDoc == IF txt_path = 0 THEN Absent ELSE entries[txt_path].doc

\* the metadata is malformed JSON or its top-level value is not a mapping
BadMetadata ==
  /\ txt_path # 0
  /\ \/ MetadataDoc = Malformed
     \/ ~IsDict(MetadataDoc)

----------------------------------------------------------------------------
(* Export followed by an import of the file it wrote *)

\* a file of the archive as the import reads it back: the metadata text is
\* parsed by json.load, the other files are passed on as they are
ReadBack(e) == IF e.doc = None THEN e ELSE [e EXCEPT !.doc = JsonLoad(e.doc)]

\* ImportNX3 is started on the file a finished export left at export_path;
\* os.listdir may list the extracted files in any order
Reimport ==
  /\ pc = "done"
  /\ result = "FINISHED"
  /\ destFile = "new"
  /\ entries = <<>>
  /\ pc' = "unzip"
  /\ result' = "NONE"
  /\ reports' = {}
  /\ scene0' = objects
  /\ data0' = datablocks
  /\ zip_ok' = TRUE
  /\ entries' \in Perms({ReadBack(archive[i]) : i \in 1..Len(archive)})
  /\ sizes' = [i \in 1..Len(archive) |-> 1]
  /\ UNCHANGED <<objects, datablocks, active, exportVars, metadata_text, glb_path,
                 extractedFiles, txt_path, safetensor_path, properties_data, decoded,
                 decodeCalls, new_objects, afterDecode, visited>>

NextRoundTrip ==
  \/ ExportDestinationBusy
  \/ ExportNothingSelected
  \/ ExportBegin
  \/ ExportDuplicate
  \/ ExportMerge
  \/ ExportNoMeshes
  \/ ExportSelectAll
  \/ ExportEncode
  \/ ExportEncodeRaises
  \/ ExportWrite
  \/ ExportWriteRaises
  \/ ExportMove
  \/ ExportMoveFails
  \/ ExportCleanup
  \/ Reimport
  \/ ImportUnpack
  \/ ImportDecode
  \/ ImportDecodeRaises
  \/ ImportApply

SpecRoundTrip == InitExport /\ [][NextRoundTrip]_vars

\* C14: once the import has unpacked the archive an export wrote, the model,
\* metadata and weights files are all located, the model and weights files
\* hold what was packed, and the metadata read back equals the document
\* that was written, with the same properties mapping.
C14_RoundTrip ==
  extractedFiles > 0 =>
     /\ glb_path # 0 /\ txt_path # 0 /\ safetensor_path # 0
     /\ entries[glb_path].name = <<"model", "glb">>
     /\ entries[glb_path].payload = archive[1].payload
     /\ entries[safetensor_path].payload = archive[3].payload
     /\ metadata_text = ExportDocument(meta_properties)
     /\ properties_data = meta_properties

C14_Witness ==
  /\ extractedFiles = 3
  /\ pc = "decode"
  /\ entries[1].name # <<"model", "glb">>
  /\ IsDict(properties_data)
  /\ \E k \in DOMAIN properties_data.v :
        /\ IsDict(properties_data.v[k])
        /\ \E j \in DOMAIN properties_data.v[k].v : properties_data.v[k].v[j].t = "float"

----------------------------------------------------------------------------
(* Export: metadata and modifiers *)

\* the custom properties of an object, description side-table left out
OwnProperties(o) == [k \in DOMAIN o.props \ {RNA_UI} |-> o.props[k]]

\* C15: the properties written by the export are, with combine-meshes, the
\* flat property set of the last selected object; otherwise a nested map
\* keyed by object name with an entry exactly for the selected objects that
\* have a custom property.  The side-table '_RNA_UI' is in no exported set.
C15_ExportedProperties ==
  pc = "move" =>
     LET sel == SelectedIds(objects)
     IN /\ IsDict(meta_properties)
        /\ (combine_meshes /\ sel # {}) =>
              meta_properties = VDict(OwnProperties(objects[Max(sel)]))
        /\ ~combine_meshes =>
              /\ DOMAIN meta_properties.v =
                   {objects[i].name : i \in {j \in sel : OwnProperties(objects[j]) # EmptyDict}}
              /\ \A i \in sel :
                    OwnProperties(objects[i]) # EmptyDict =>
                       meta_properties.v[objects[i].name] = VDict(OwnProperties(objects[i]))
        /\ RNA_UI \notin DOMAIN meta_properties.v
        /\ \A k \in DOMAIN meta_properties.v :
              IsDict(meta_properties.v[k]) => RNA_UI \notin DOMAIN meta_properties.v[k].v

C15_Witness ==
  /\ pc = "move"
  /\ ~combine_meshes
  /\ \E i, j \in SelectedIds(objects) :
        /\ RNA_UI \in DOMAIN objects[i].props
        /\ objects[i].name \in DOMAIN meta_properties.v
        /\ objects[j].props = EmptyDict
        /\ objects[j].name \notin DOMAIN meta_properties.v

----------------------------------------------------------------------------
(* Import: classification of the extracted files *)

\* the positions of the entries with a given suffix, in any letter case
WithSuffix(listing, exts) ==
  {i \in 1..Len(listing) :
     LET n == listing[i].name IN Len(n) >= 2 /\ n[Len(n)] \in exts}

\* C16: when the only metadata entry of a readable archive has the suffix
\* .json, its properties are read: after unpacking, the properties held by
\* the import are those of that entry's document.
C16_JsonMetadataIsRead ==
  LET json == WithSuffix(entries, {"json", "JSON"})
      txt == WithSuffix(entries, {"txt", "TXT"})
  IN (pc # "unzip" /\ zip_ok /\ txt = {} /\ Cardinality(json) = 1) =>
        LET doc == entries[CHOOSE i \in json : TRUE].doc
        IN (IsDict(doc) /\ <<"properties">> \in DOMAIN doc.v) =>
              properties_data = doc.v[<<"properties">>]

\* C17: under the nested rule, for a new object whose name has more than
\* one separator and is not itself a key, the name used for the fallback
\* match is the object name up to its last separator.
C17_StrippedNameUpToLastSeparator ==
  (pc \in {"apply", "done"} /\ IsNested(properties_data)) =>
     \A o \in Range(new_objects) :
        LET obj_name == afterDecode[o].name
        IN (Len(obj_name) > 2 /\ obj_name \notin DOMAIN properties_data.v) =>
              base_name(obj_name) = StripLast(obj_name)

ChosenName(listing, role) ==
  IF LastOfRole(listing, role) = 0 THEN <<>>
  ELSE listing[LastOfRole(listing, role)].name

\* C19: the model and metadata files the import has chosen are those it
\* would choose under every other order in which the same extracted files
\* can be listed.
C19_ClassificationOrderIndependent ==
  (pc # "unzip" /\ zip_ok) =>
     \A q \in Perms(Range(entries)) :
        /\ ChosenName(q, "glb") = (IF glb_path = 0 THEN <<>> ELSE entries[glb_path].name)
        /\ ChosenName(q, "txt") = (IF txt_path = 0 THEN <<>> ELSE entries[txt_path].name)

----------------------------------------------------------------------------
(* Export: empty selection *)

----------------------------------------------------------------------------
(* Export: the destination file and the selection afterwards *)

\* C21: a file that was at the destination path before the export stops
\* being there only in the step that puts the complete new archive in its
\* place; an export that ends otherwise leaves it where it was.
C21_PriorFileOnlyReplaced ==
  [][(destFile = "old" /\ destFile' # "old") => destFile' = "new"]_vars

\* C22: when an export has finished successfully, every object that was in
\* the scene before is selected exactly if it was selected before, and no
\* other object is selected.
C22_SelectionRestored ==
  (pc = "done" /\ result = "FINISHED" /\ entries = <<>>) =>
     /\ \A i \in DOMAIN scene0 :
           i \in DOMAIN objects /\ objects[i].selected = scene0[i].selected
     /\ SelectedIds(objects) \subseteq DOMAIN scene0

====
